---- MODULE Spec2Model ----
\* Controller of the ncm-tui terminal player (src/ncm-tui/src/ui/app.rs):
\* key translation, command queue and dispatch, screen and mode state
\* machines, the model-update / dirty-flag cycle and the draw pass.
EXTENDS Integers, Sequences, FiniteSets, TLC

\* ---------------------------------------------------------------- bounds

\* Longest text the command-line buffer takes while typing in CommandEntry
\* mode (the widget itself is unbounded).
MaxText == 1

\* ------------------------------------------------------------ vocabulary

\* config::ScreenEnum, config::AppMode as matched in app.rs.
Screens == {"Main", "Login", "Help"}
Modes == {"Normal", "CommandEntry"}

\* config::Command. Every command is a record with the same two fields.
Cmd(name) == [name |-> name, arg |-> "-"]
GotoScreen(to_screen) == [name |-> "GotoScreen", arg |-> to_screen]
NewPlaylist(name) == [name |-> "NewPlaylist", arg |-> name]

\* The arm of handle_event's match that forwards to the active screen.
ForwardedNames == {"Down", "Up", "NextPanel", "PrevPanel", "Esc", "Play"}
\* The commands that fall into the `_ => {}` arm of handle_event's match.
UnhandledNames ==
    {"Nop", "TogglePlay", "PrevTrack", "NextTrack", "ToggleRepeat",
     "ToggleShuffle", "GotoTop", "GotoBottom", "NewPlaylist", "PlaylistAdd",
     "SelectPlaylist"}

\* crossterm KeyCode values. A key is a pair <<kind of code, payload>>.
Char(c) == <<"Char", c>>
Key(name) == <<name, "-">>
F(n) == <<"F", n>>

\* Characters bound in the Normal-mode keymap, and some that are not.
MappedChars ==
    {"k", "j", " ", ",", ".", "r", "s", "g", "G", "1", "0", "n", "p", "x",
     "q", ":"}
UnmappedChars == {"l", "o", "e", "_", "z"}
Chars == MappedChars \cup UnmappedChars
Keys ==
    {Char(c) : c \in Chars}
    \cup {Key(n) : n \in {"Up", "Down", "Left", "Right", "Tab", "BackTab",
                          "Enter", "Esc", "Backspace"}}
    \cup {F("1"), F("2")}

\* crossterm KeyEventKind.
KeyKinds == {"Press", "Repeat", "Release"}

\* What event::read() hands to handle_event: a key event, another terminal
\* event (resize, mouse, focus, paste), or an I/O error.
KeyEvent(kind, code) == [type |-> "Key", kind |-> kind, code |-> code]
OtherEvent == [type |-> "Other", kind |-> "-", code |-> Key("-")]
ReadError == [type |-> "Error", kind |-> "-", code |-> Key("-")]
NoEvent == [type |-> "None", kind |-> "-", code |-> Key("-")]
Events ==
    {KeyEvent(kind, code) : kind \in KeyKinds, code \in Keys}
    \cup {OtherEvent, ReadError}

\* Result<bool> of a screen's update_model / handle_event.
ScreenResults == {"Ok(true)", "Ok(false)", "Err"}

\* Option<T>: <<>> is None, <<v>> is Some(v).
None == <<>>
Some(v) == <<v>>

\* Player::position() / Player::duration() in whole seconds.
Positions == {None, Some(61)}
Durations == {None, Some(125)}

\* ---------------------------------------------------------------- state

VARIABLES
    \* struct App (app.rs:19-37)
    current_screen,         \* ScreenEnum
    current_mode,           \* AppMode
    need_re_update_view,    \* the dirty flag
    command_queue,          \* VecDeque<Command>
    command_line,           \* CommandLine widget: the buffered text
    playback_bar,           \* Gauge label
    \* main_screen, login_screen and help_screen are opaque to the controller:
    \* their construction and every call on them is recorded in calls.
    \* NCM_API singleton
    is_login,               \* what NCM_API.is_login() answers
    \* the last operation of the controller, as an observer sees it
    op,                     \* which operation ran last (X.await: suspended)
    event,                  \* the event handle_event read
    ret,                    \* what the operation returned
    entry,                  \* AppState and API state when the operation began
    mid,                    \* AppState when handle_event reached its dispatch
    calls,                  \* collaborator calls made, in program order
    enqueued,               \* commands pushed onto the queue, in order
    dispatched,             \* commands popped off the queue, in order
    input_cmd,              \* the text parse_command handed to the parser
    \* the call of the controller that is suspended at an .await
    pending,                \* the call, its inputs and the sessions it found
    \* what the operations before the last one left behind
    hist,                   \* the history after the last operation
    prev_hist               \* the history when the last operation began

app_vars ==
    <<current_screen, current_mode, need_re_update_view, command_queue,
      command_line, playback_bar>>
obs_vars == <<op, event, ret, entry, mid, calls, enqueued, dispatched, input_cmd>>
hist_vars == <<hist, prev_hist>>
vars == <<app_vars, is_login, obs_vars, pending, hist_vars>>

\* The fields of App and of NCM_API a handler works on, with the empty
\* record of what the handler has done so far. waits is what the handler
\* finds at NCM_API each time it goes on after a suspension; when it is
\* suspended with none left, halted is set and frozen keeps the handler as
\* it is at that await.
Self ==
    [current_screen |-> current_screen,
     current_mode |-> current_mode,
     need_re_update_view |-> need_re_update_view,
     command_queue |-> command_queue,
     command_line |-> command_line,
     playback_bar |-> playback_bar,
     is_login |-> is_login,
     waits |-> <<>>,
     halted |-> FALSE,
     frozen |-> <<>>,
     calls |-> <<>>,
     enqueued |-> <<>>,
     dispatched |-> <<>>,
     input_cmd |-> <<>>]

\* AppState (and the API's login state) as a snapshot.
Snapshot(a) ==
    [current_screen |-> a.current_screen,
     current_mode |-> a.current_mode,
     need_re_update_view |-> a.need_re_update_view,
     command_queue |-> a.command_queue,
     text |-> a.command_line,
     is_login |-> a.is_login]

\* A collaborator call <<object, method, argument or result>>.
Call(a, obj, method, arg) ==
    [a EXCEPT !.calls = Append(@, <<obj, method, arg>>)]

BoolStr(b) == IF b THEN "true" ELSE "false"

\* An await point of the controller: <<"await", what is awaited, "-">>.
Await(a, what) == Call(a, "await", what, "-")

\* The handler a is about to run, with what it finds at NCM_API after each
\* of the suspensions it has gone through.
Meets(a, ws) == [a EXCEPT !.waits = ws]

\* The handler is left as it is at this await.
Halt(a) == [a EXCEPT !.halted = TRUE, !.frozen = <<a>>]

\* The controller is suspended with no guard of NCM_API in its hands: the
\* other tasks run and can log in or end the session before it goes on.
Yield(a) ==
    CASE a.halted -> a
      [] a.waits = <<>> -> Halt(a)
      [] OTHER -> [a EXCEPT !.is_login = Head(a.waits), !.waits = Tail(a.waits)]

\* The controller is suspended with the guard of NCM_API in its hands: no
\* other task reaches the session before it goes on.
YieldGuarded(a) ==
    CASE a.halted -> a
      [] a.waits = <<>> -> Halt(a)
      [] OTHER -> [a EXCEPT !.waits = Tail(a.waits)]

\* The await of a screen's update_model: the controller is suspended there.
AwaitScreen(a, what) == Yield(Await(a, what))

\* The await of a screen's handle_event, which hands the controller a
\* Result<bool>: the controller is suspended there.
AwaitResult(a, what, res) == Yield(Call(a, "await", what, res))

\* X.lock().await: the controller is suspended until the lock is free and
\* then holds the guard; under the guard of NCM_API the session is what the
\* other tasks left.
Lock(a, obj) == Call(Yield(Await(a, "lock")), obj, "lock", "-")

\* The guard of X is dropped.
Unlock(a, obj) == Call(a, obj, "unlock", "-")

\* --------------------------------------------------- CommandLine widget

\* Messages written into the command line as one piece of text.
LogoutFirstMsg == "you have to logout from current account first!"
ParseErrorMsg == "parse error"

\* CommandLine::new: an empty buffer.
NewCommandLine == <<>>

\* CommandLine::reset: the buffer is cleared.
cl_reset(cl) == <<>>

\* CommandLine::get_contents: the buffered text.
cl_get_contents(cl) == cl

\* textarea.insert_str: the text goes in at the cursor, after what is there.
cl_insert_str(cl, text) == Append(cl, text)

\* textarea.input(key_event): a character is typed, Backspace removes the
\* last one, any other key leaves the text alone.
cl_input(cl, key_code) ==
    CASE key_code[1] = "Char" -> Append(cl, key_code[2])
      [] key_code = Key("Backspace") /\ cl # <<>> -> SubSeq(cl, 1, Len(cl) - 1)
      [] OTHER -> cl

\* The words of the command grammar, one character each, and the command
\* each stands for: the whole of config::Command, the vocabulary of the
\* keymap together with GotoScreen(Login) and Logout, which no key is
\* bound to. A command bound to a character key has that character as its
\* word.
Words ==
    {<<"k", Cmd("Up")>>, <<"j", Cmd("Down")>>, <<" ", Cmd("TogglePlay")>>,
     <<",", Cmd("PrevTrack")>>, <<".", Cmd("NextTrack")>>,
     <<"y", Cmd("Play")>>, <<"e", Cmd("Esc")>>,
     <<"r", Cmd("ToggleRepeat")>>, <<"s", Cmd("ToggleShuffle")>>,
     <<"g", Cmd("GotoTop")>>, <<"G", Cmd("GotoBottom")>>,
     <<"t", Cmd("NextPanel")>>, <<"b", Cmd("PrevPanel")>>,
     <<"1", GotoScreen("Main")>>, <<"0", GotoScreen("Help")>>,
     <<"l", GotoScreen("Login")>>, <<"n", NewPlaylist("None")>>,
     <<"p", Cmd("PlaylistAdd")>>, <<"x", Cmd("SelectPlaylist")>>,
     <<"q", Cmd("Quit")>>, <<"o", Cmd("Logout")>>,
     <<":", Cmd("EnterCommand")>>, <<"_", Cmd("Nop")>>}

\* Command::parse: a word of the grammar gives its command; anything else
\* is an error with a message.
WordChars == {w[1] : w \in Words}
WordCommand == [c \in WordChars |-> (CHOOSE w \in Words : w[1] = c)[2]]
Parse(text) ==
    IF Len(text) = 1 /\ text[1] \in WordChars
    THEN [ok |-> TRUE, cmd |-> WordCommand[text[1]], msg |-> ""]
    ELSE [ok |-> FALSE, cmd |-> Cmd("Nop"), msg |-> ParseErrorMsg]

\* NCM_API.logout(): the session is gone.
api_logout(a) == [a EXCEPT !.is_login = FALSE]

\* ------------------------------------------------------ private methods

\* The keymap of get_command_from_key (app.rs:246-275).
KeyToCommand(key_code) ==
    CASE key_code = Char("k") -> Cmd("Up")
      [] key_code = Key("Up") -> Cmd("Up")
      [] key_code = Char("j") -> Cmd("Down")
      [] key_code = Key("Down") -> Cmd("Down")
      [] key_code = Char(" ") -> Cmd("TogglePlay")
      [] key_code = Char(",") -> Cmd("PrevTrack")
      [] key_code = Char(".") -> Cmd("NextTrack")
      [] key_code = Key("Enter") -> Cmd("Play")
      [] key_code = Key("Esc") -> Cmd("Esc")
      [] key_code = Char("r") -> Cmd("ToggleRepeat")
      [] key_code = Char("s") -> Cmd("ToggleShuffle")
      [] key_code = Char("g") -> Cmd("GotoTop")
      [] key_code = Char("G") -> Cmd("GotoBottom")
      [] key_code = Key("Right") -> Cmd("NextPanel")
      [] key_code = Key("Tab") -> Cmd("NextPanel")
      [] key_code = Key("Left") -> Cmd("PrevPanel")
      [] key_code = Key("BackTab") -> Cmd("PrevPanel")
      [] key_code = Char("1") -> GotoScreen("Main")
      [] key_code = Char("0") -> GotoScreen("Help")
      [] key_code = F("1") -> GotoScreen("Help")
      [] key_code = Char("n") -> NewPlaylist("None")
      [] key_code = Char("p") -> Cmd("PlaylistAdd")
      [] key_code = Char("x") -> Cmd("SelectPlaylist")
      [] key_code = Char("q") -> Cmd("Quit")
      [] key_code = Char(":") -> Cmd("EnterCommand")
      [] OTHER -> Cmd("Nop")

\* command_queue.push_back(cmd).
push_back(a, cmd) ==
    [a EXCEPT !.command_queue = Append(@, cmd),
              !.enqueued = Append(@, cmd)]

\* Mutant of pop_front: front() is read and the command stays queued.
pop_front_keeps(a) ==
    [a EXCEPT !.dispatched = Append(@, Head(a.command_queue))]

\* command_queue.pop_front() when the queue is not empty.
pop_front(a) ==
    [a EXCEPT !.command_queue = Tail(@),
              !.dispatched = Append(@, Head(a.command_queue))]

\* Mutant of get_command_from_key: the key's command is pushed twice.
get_command_from_key_twice(a, key_code) ==
    push_back(push_back(a, KeyToCommand(key_code)), KeyToCommand(key_code))

\* Mutant of get_command_from_key: the keymap ignores the case of 'G'.
get_command_from_key_folds_case(a, key_code) ==
    push_back(a, IF key_code = Char("G") THEN Cmd("GotoTop")
                 ELSE KeyToCommand(key_code))

\* Mutant of get_command_from_key: a key outside the keymap queues nothing.
get_command_from_key_skips_nop(a, key_code) ==
    IF KeyToCommand(key_code) = Cmd("Nop")
    THEN a
    ELSE push_back(a, KeyToCommand(key_code))

get_command_from_key(a, key_code) == push_back(a, KeyToCommand(key_code))

show_prompt(a, text) ==
    [a EXCEPT !.command_line = cl_insert_str(@, text)]

\* Mutant of parse_command: the buffer is not reset before the message
\* is written.
parse_command_no_reset(a) ==
    LET input == cl_get_contents(a.command_line)
        kept == [a EXCEPT !.input_cmd = input]
        parsed == Parse(input)
    IN  IF parsed.ok
        THEN push_back([kept EXCEPT !.command_line = cl_reset(@)], parsed.cmd)
        ELSE show_prompt(kept, parsed.msg)

parse_command(a) ==
    LET input == cl_get_contents(a.command_line)
        cleared == [a EXCEPT !.command_line = cl_reset(@),
                             !.input_cmd = input]
        parsed == Parse(input)
    IN  IF parsed.ok
        THEN push_back(cleared, parsed.cmd)
        ELSE show_prompt(cleared, parsed.msg)

\* Mutant of back_to_normal_mode: the mode is left as it is.
back_to_normal_mode_stays(a) == a

\* back_to_normal_mode (app.rs:295-297).
back_to_normal_mode(a) == [a EXCEPT !.current_mode = "Normal"]

switch_to_command_entry_mode(a) == [a EXCEPT !.current_mode = "CommandEntry"]

\* NCM_API.lock().await.is_login(): the guard is a temporary of the
\* condition and is dropped as soon as the answer is read.
ask_is_login(a) ==
    LET locked == Lock(a, "NCM_API")
    IN  Unlock(Call(locked, "NCM_API", "is_login", BoolStr(locked.is_login)),
               "NCM_API")

\* Mutant of switch_screen: with a session the prompt is shown but the
\* switch to Login is made all the same.
switch_screen_warns_only(a, to_screen) ==
    IF to_screen = "Login"
    THEN LET asked == ask_is_login(a)
             warned == IF asked.is_login
                       THEN show_prompt(asked, LogoutFirstMsg)
                       ELSE asked
         IN  [warned EXCEPT !.need_re_update_view = TRUE,
                            !.current_screen = to_screen]
    ELSE [a EXCEPT !.need_re_update_view = TRUE,
                   !.current_screen = to_screen]

\* Mutant of switch_screen: a switch to the screen already shown is a no-op.
switch_screen_if_other(a, to_screen) ==
    IF to_screen = a.current_screen
    THEN a
    ELSE IF to_screen = "Login"
         THEN LET asked == ask_is_login(a)
              IN  IF asked.is_login
                  THEN show_prompt(asked, LogoutFirstMsg)
                  ELSE [asked EXCEPT !.need_re_update_view = TRUE,
                                     !.current_screen = to_screen]
         ELSE [a EXCEPT !.need_re_update_view = TRUE,
                        !.current_screen = to_screen]

\* switch_screen: NCM_API is locked and asked only when the target is Login.
switch_screen(a, to_screen) ==
    IF to_screen = "Login"
    THEN LET asked == ask_is_login(a)
         IN  IF asked.is_login
             THEN show_prompt(asked, LogoutFirstMsg)
             ELSE [asked EXCEPT !.need_re_update_view = TRUE,
                                !.current_screen = to_screen]
    ELSE [a EXCEPT !.need_re_update_view = TRUE,
                   !.current_screen = to_screen]

\* ------------------------------------------------------- public methods

\* NCM_API.user_favorite_songlist(): (Option<name>, Option<playlist>).
Favorites == {<<n, p>> : n \in {"None", "Some"}, p \in {"None", "Some"}}

\* The pair as it is recorded in calls.
FavStr(fav) ==
    CASE fav = <<"Some", "Some">> -> "(Some, Some)"
      [] fav = <<"Some", "None">> -> "(Some, None)"
      [] fav = <<"None", "Some">> -> "(None, Some)"
      [] fav = <<"None", "None">> -> "(None, None)"

\* The screen object a call on the active screen goes to.
ScreenObj(scr) ==
    CASE scr = "Main" -> "main_screen"
      [] scr = "Login" -> "login_screen"
      [] scr = "Help" -> "help_screen"

\* Mutant of init_after_login: the switch goes to the Login screen, whose
\* rejection test asks NCM_API.
init_after_login_to_login(a, fav) ==
    LET locked == Lock(a, "NCM_API")
        fresh == Call(locked, "MainScreen", "new", "-")
        asked == Call(fresh, "NCM_API", "user_favorite_songlist", FavStr(fav))
        loaded == IF fav = <<"Some", "Some">>
                  THEN Call(asked, "main_screen", "update_playlist_model", "-")
                  ELSE asked
        switched == switch_screen(Await(loaded, "switch_screen"), "Login")
    IN  Unlock(switched, "NCM_API")

\* init_after_login: the guard taken on entry lives to the end of the body.
init_after_login(a, fav) ==
    LET locked == Lock(a, "NCM_API")
        fresh == Call(locked, "MainScreen", "new", "-")
        asked == Call(fresh, "NCM_API", "user_favorite_songlist", FavStr(fav))
        loaded == IF fav = <<"Some", "Some">>
                  THEN Call(asked, "main_screen", "update_playlist_model", "-")
                  ELSE asked
        switched == switch_screen(Await(loaded, "switch_screen"), "Main")
    IN  Unlock(switched, "NCM_API")

\* Mutant of update_login_model: after a login the Login screen's own
\* answer is returned instead of Ok(true).
update_login_model_own_answer(a, sres, fav) ==
    LET updated == AwaitScreen(Call(a, "login_screen", "update_model", sres),
                               "update_model")
        released == ask_is_login(updated)
    IN  IF sres = "Err"
        THEN [a |-> updated, ret |-> "Err"]
        ELSE IF released.is_login
             THEN [a |-> init_after_login(Await(released, "init_after_login"), fav),
                   ret |-> sres]
             ELSE [a |-> released, ret |-> sres]

\* Mutant of update_login_model: the guard taken for is_login() is held
\* until the branch ends, across init_after_login.
update_login_model_holds_guard(a, sres, fav) ==
    LET updated == AwaitScreen(Call(a, "login_screen", "update_model", sres),
                               "update_model")
        locked == Lock(updated, "NCM_API")
        asked == Call(locked, "NCM_API", "is_login", BoolStr(locked.is_login))
    IN  IF sres = "Err"
        THEN [a |-> updated, ret |-> "Err"]
        ELSE IF asked.is_login
             THEN [a |-> Unlock(init_after_login(Await(asked, "init_after_login"),
                                                 fav),
                                "NCM_API"),
                   ret |-> "Ok(true)"]
             ELSE [a |-> Unlock(asked, "NCM_API"), ret |-> sres]

\* update_login_model: [a, ret] with ret the Result<bool>.
update_login_model(a, sres, fav) ==
    LET updated == AwaitScreen(Call(a, "login_screen", "update_model", sres),
                               "update_model")
        released == ask_is_login(updated)
    IN  IF sres = "Err"
        THEN [a |-> updated, ret |-> "Err"]
        ELSE IF released.is_login
             THEN [a |-> init_after_login(Await(released, "init_after_login"), fav),
                   ret |-> "Ok(true)"]
             ELSE [a |-> released, ret |-> sres]

\* The label "{:02}:{:02}/{:02}:{:02}" as its four numbers.
InitialLabel == [text |-> "--:--/--:--", mmss |-> <<0, 0, 0, 0>>]
FormatLabel(pos, dur) ==
    [text |-> "MM:SS/MM:SS",
     mmss |-> <<pos \div 60, pos % 60, dur \div 60, dur % 60>>]

\* The playback_bar part of update_model (app.rs:100-112).
update_playback_bar(a, pos, dur) ==
    LET locked == Lock(a, "PLAYER")
        p == Call(locked, "PLAYER", "position", IF pos = None THEN "None" ELSE "Some")
        d == IF pos = None
             THEN p
             ELSE Call(p, "PLAYER", "duration", IF dur = None THEN "None" ELSE "Some")
        labelled == IF pos # None /\ dur # None
                    THEN [d EXCEPT !.playback_bar = FormatLabel(pos[1], dur[1])]
                    ELSE d
    IN  Unlock(labelled, "PLAYER")

\* Mutant of update_screen_model: on Help the flag keeps its value.
update_screen_model_help_keeps(a, sres, fav) ==
    CASE a.current_screen = "Help" ->
            [a |-> a, ret |-> IF a.need_re_update_view THEN "Ok(true)" ELSE "Ok(false)"]
      [] a.current_screen = "Login" -> update_login_model(a, sres, fav)
      [] a.current_screen = "Main" ->
            [a |-> AwaitScreen(Call(a, "main_screen", "update_model", sres),
                               "update_model"),
             ret |-> sres]

\* The match on current_screen in update_model (app.rs:94-98): [a, ret]
\* with ret the Result<bool> that `?` unwraps into need_re_update_view.
update_screen_model(a, sres, fav) ==
    CASE a.current_screen = "Help" -> [a |-> a, ret |-> "Ok(false)"]
      [] a.current_screen = "Login" -> update_login_model(a, sres, fav)
      [] a.current_screen = "Main" ->
            [a |-> AwaitScreen(Call(a, "main_screen", "update_model", sres),
                               "update_model"),
             ret |-> sres]

\* Mutant of update_model: a dirty flag that is already true stays true.
update_model_sticky(a, sres, fav, pos, dur) ==
    LET screen == update_screen_model(a, sres, fav)
    IN  IF screen.ret = "Err"
        THEN [a |-> screen.a, ret |-> "Err"]
        ELSE [a |-> update_playback_bar(
                        [screen.a EXCEPT
                            !.need_re_update_view = (@ \/ screen.ret = "Ok(true)")],
                        pos, dur),
              ret |-> "Ok"]

\* update_model: [a, ret] with ret "Ok" or "Err".
update_model(a, sres, fav, pos, dur) ==
    LET screen == update_screen_model(a, sres, fav)
    IN  IF screen.ret = "Err"
        THEN [a |-> screen.a, ret |-> "Err"]
        ELSE [a |-> update_playback_bar(
                        [screen.a EXCEPT
                            !.need_re_update_view = (screen.ret = "Ok(true)")],
                        pos, dur),
              ret |-> "Ok"]

\* Mutant of cancel_command: Esc leaves command entry with the text kept.
cancel_command_keeps_text(a) == back_to_normal_mode(a)

\* Esc in CommandEntry mode (app.rs:130-133): reset the command line, back
\* to Normal mode.
cancel_command(a) ==
    back_to_normal_mode([a EXCEPT !.command_line = cl_reset(@)])

\* The first half of handle_event (app.rs:118-140): the event read becomes a
\* command, a committed or cancelled command line, or text.
translate_event(a, ev) ==
    IF ev.type = "Key" /\ ev.kind \in {"Press", "Repeat"}
    THEN CASE a.current_mode = "Normal" -> get_command_from_key(a, ev.code)
           [] a.current_mode = "CommandEntry" /\ ev.code = Key("Enter") ->
                back_to_normal_mode(parse_command(a))
           [] a.current_mode = "CommandEntry" /\ ev.code = Key("Esc") ->
                cancel_command(a)
           [] OTHER -> [a EXCEPT !.command_line = cl_input(@, ev.code)]
    ELSE a

\* Mutant of forward_command: the screen's handler always runs and its
\* result replaces need_re_update_view.
forward_command_overwrites(a, cmd, hres) ==
    LET handled == AwaitResult(Call(a, ScreenObj(a.current_screen),
                                    "handle_event", cmd.name),
                               "handle_event", hres)
    IN  IF hres = "Err"
        THEN [a |-> handled, ret |-> "Err"]
        ELSE [a |-> [handled EXCEPT !.need_re_update_view = (hres = "Ok(true)")],
              ret |-> "Ok(true)"]

\* Mutant of forward_command: a command whose handler failed goes back on
\* the queue.
forward_command_retries(a, cmd, hres) ==
    IF a.need_re_update_view
    THEN [a |-> a, ret |-> "Ok(true)"]
    ELSE LET handled == AwaitResult(Call(a, ScreenObj(a.current_screen),
                                         "handle_event", cmd.name),
                                    "handle_event", hres)
         IN  IF hres = "Err"
             THEN [a |-> push_back(handled, cmd), ret |-> "Err"]
             ELSE [a |-> [handled EXCEPT !.need_re_update_view = (hres = "Ok(true)")],
                   ret |-> "Ok(true)"]

\* The forwarding arm (app.rs:161-175): `||` evaluates the screen's handler
\* only when need_re_update_view is false.
forward_command(a, cmd, hres) ==
    IF a.need_re_update_view
    THEN [a |-> a, ret |-> "Ok(true)"]
    ELSE LET handled == AwaitResult(Call(a, ScreenObj(a.current_screen),
                                         "handle_event", cmd.name),
                                    "handle_event", hres)
         IN  IF hres = "Err"
             THEN [a |-> handled, ret |-> "Err"]
             ELSE [a |-> [handled EXCEPT !.need_re_update_view = (hres = "Ok(true)")],
                   ret |-> "Ok(true)"]

\* Mutant of quit_command: Quit falls through to the final Ok(true).
quit_command_continues(a) == [a |-> a, ret |-> "Ok(true)"]

\* Command::Quit (app.rs:144-146): return Ok(false) at once.
quit_command(a) == [a |-> a, ret |-> "Ok(false)"]

\* Command::EnterCommand (app.rs:150-154).
enter_command(a) ==
    Call([switch_to_command_entry_mode(a) EXCEPT !.command_line = cl_reset(@)],
         "command_line", "set_prompt", ":")

\* Mutant of logout_command: logging out also shows the Login screen.
logout_command_to_login(a) ==
    [Unlock(api_logout(YieldGuarded(Await(
                Call(Lock(Call(a, "LoginScreen", "new", "-"), "NCM_API"),
                     "NCM_API", "logout", "-"),
                "logout"))),
            "NCM_API")
        EXCEPT !.current_screen = "Login", !.need_re_update_view = TRUE]

\* Command::Logout (app.rs:155-159): the guard lives to the end of the
\* statement, across the logout itself, and the session is gone when the
\* logout is done.
logout_command(a) ==
    Unlock(api_logout(YieldGuarded(Await(
               Call(Lock(Call(a, "LoginScreen", "new", "-"), "NCM_API"),
                    "NCM_API", "logout", "-"),
               "logout"))),
           "NCM_API")

\* The `_ => {}` arm (app.rs:176).
other_command(a) == a

\* The arms of the match on the popped command (app.rs:143-177).
execute_command(a, cmd, hres) ==
    CASE cmd.name = "Quit" -> quit_command(a)
      [] cmd.name = "GotoScreen" ->
            [a |-> switch_screen(Await(a, "switch_screen"), cmd.arg),
             ret |-> "Ok(true)"]
      [] cmd.name = "EnterCommand" -> [a |-> enter_command(a), ret |-> "Ok(true)"]
      [] cmd.name = "Logout" -> [a |-> logout_command(a), ret |-> "Ok(true)"]
      [] cmd.name \in ForwardedNames -> forward_command(a, cmd, hres)
      [] OTHER -> [a |-> other_command(a), ret |-> "Ok(true)"]

\* The second half of handle_event (app.rs:142-180).
dispatch(a, hres) ==
    IF a.command_queue # <<>>
    THEN execute_command(pop_front(a), Head(a.command_queue), hres)
    ELSE [a |-> a, ret |-> "Ok(true)"]

\* handle_event: [a, mid, ret]; mid is the state between the two halves.
handle_event(a, ev, hres) ==
    IF ev.type = "Error"
    THEN [a |-> a, mid |-> a, ret |-> "Err"]
    ELSE LET translated == translate_event(a, ev)
             done == dispatch(translated, hres)
         IN  [a |-> done.a, mid |-> translated, ret |-> done.ret]

\* Mutant of update_view: the active screen's view is updated whatever
\* need_re_update_view says.
update_view_always(a) ==
    LET screen ==
            IF a.current_screen # "Help"
            THEN Call(a, ScreenObj(a.current_screen), "update_view", "-")
            ELSE a
        cursor == Call(screen, "command_line", "set_cursor_visibility",
                       BoolStr(a.current_mode = "CommandEntry"))
    IN  Call(cursor, "command_line", "update_view", "-")

\* update_view (app.rs:183-200).
update_view(a) ==
    LET screen ==
            IF a.need_re_update_view /\ a.current_screen # "Help"
            THEN Call(a, ScreenObj(a.current_screen), "update_view", "-")
            ELSE a
        cursor == Call(screen, "command_line", "set_cursor_visibility",
                       BoolStr(a.current_mode = "CommandEntry"))
    IN  Call(cursor, "command_line", "update_view", "-")

\* What terminal.draw does: it can fail before the frame closure runs
\* (resize) or after it (flush).
DrawOutcomes == {"Ok", "ErrBeforeFrame", "ErrAfterFrame"}

\* The frame closure of draw (app.rs:207-237).
render_frame(a) ==
    Call(Call(Call(a, ScreenObj(a.current_screen), "draw", "-"),
              "playback_bar", "render", "-"),
         "command_line", "draw", "-")

\* draw: [a, ret].
draw(a, io) ==
    LET viewed == update_view(a)
    IN  [a |-> IF io = "ErrBeforeFrame" THEN viewed ELSE render_frame(viewed),
         ret |-> IF io = "Ok" THEN "Ok" ELSE "Err"]

\* -------------------------------------------------------------- actions

\* No command entry is under way.
NoTrip == [active |-> FALSE, current_screen |-> "Main", need_re_update_view |-> FALSE]

\* The history after App::new: no draw pass has run, the dirty flag was set
\* true by the constructor and no update_model has completed since.
NewHist == [drawn |-> FALSE, forced |-> "new", updated |-> FALSE, trip |-> NoTrip]

\* switch_screen went past its rejection and assigned (app.rs:326-327) in an
\* operation o that began in state en, popped dsp and made the calls cls:
\* GotoScreen is rejected when NCM_API answered that there is a session.
Switched(o, en, dsp, cls) ==
    \/ o = "init_after_login"
    \/ /\ o = "update_model"
       /\ \E i \in 1..Len(cls) : cls[i][1] = "MainScreen" /\ cls[i][2] = "new"
    \/ /\ o = "handle_event"
       /\ Len(dsp) = 1
       /\ dsp[1].name = "GotoScreen"
       /\ \A i \in 1..Len(cls) : cls[i] # <<"NCM_API", "is_login", "true">>

\* The command entry under way after an operation: dispatching EnterCommand
\* starts one and remembers current_screen and dirty as they were before it,
\* the handle_event calls made in CommandEntry mode continue it, and a call
\* of update_model or init_after_login in between ends it.
TripAfter(h, o, en, dsp) ==
    IF o = "handle_event"
    THEN IF Len(dsp) = 1 /\ dsp[1].name = "EnterCommand"
         THEN [active |-> TRUE, current_screen |-> en.current_screen,
               need_re_update_view |-> en.need_re_update_view]
         ELSE IF en.current_mode = "CommandEntry" THEN h.trip ELSE NoTrip
    ELSE IF o \in {"update_model", "init_after_login"} THEN NoTrip ELSE h.trip

\* The history after an operation o that began with history h in state en,
\* returned rt, popped dsp and made the calls cls.
HistAfter(h, o, en, rt, dsp, cls) ==
    [drawn |-> h.drawn \/ o = "draw",
     forced |-> IF Switched(o, en, dsp, cls) THEN "switch"
                ELSE IF o = "draw" THEN "no" ELSE h.forced,
     updated |-> IF Switched(o, en, dsp, cls) \/ o = "draw" THEN FALSE
                 ELSE h.updated \/ (o = "update_model" /\ rt = "Ok"),
     trip |-> TripAfter(h, o, en, dsp)]

\* The operation is recorded in the history.
Track ==
    /\ prev_hist' = hist
    /\ hist' = HistAfter(hist, op', entry', ret', dispatched', calls')

\* The history is not recorded.
Frozen == UNCHANGED hist_vars

\* No call of the controller is suspended.
NoCall ==
    [op |-> "none", ev |-> NoEvent, hres |-> "-", sres |-> "-",
     fav |-> <<"None", "None">>, pos |-> None, dur |-> None,
     start |-> <<>>, seen |-> <<>>]

\* What App::new constructs (app.rs:54-57).
NewCalls ==
    <<<<"MainScreen", "new", "-">>, <<"LoginScreen", "new", "-">>,
      <<"HelpScreen", "new", "-">>, <<"CommandLine", "new", "-">>>>

\* App::new (app.rs:41-62); whether a session exists by then is up to the
\* caller.
Init ==
    /\ current_screen = "Main"
    /\ current_mode = "Normal"
    /\ need_re_update_view = TRUE
    /\ command_queue = <<>>
    /\ command_line = NewCommandLine
    /\ playback_bar = InitialLabel
    /\ is_login \in BOOLEAN
    /\ op = "new"
    /\ event = NoEvent
    /\ ret = "-"
    /\ entry = Snapshot([current_screen |-> "Main", current_mode |-> "Normal",
                         need_re_update_view |-> TRUE, command_queue |-> <<>>,
                         command_line |-> NewCommandLine, is_login |-> is_login])
    /\ mid = entry
    /\ calls = NewCalls
    /\ enqueued = <<>>
    /\ dispatched = <<>>
    /\ input_cmd = <<>>
    /\ pending = NoCall
    /\ hist = NewHist
    /\ prev_hist = NewHist

\* The handler's final state a becomes the state of the program.
Commit(a) ==
    /\ current_screen' = a.current_screen
    /\ current_mode' = a.current_mode
    /\ need_re_update_view' = a.need_re_update_view
    /\ command_queue' = a.command_queue
    /\ command_line' = a.command_line
    /\ playback_bar' = a.playback_bar
    /\ is_login' = a.is_login
    /\ calls' = a.calls
    /\ enqueued' = a.enqueued
    /\ dispatched' = a.dispatched
    /\ input_cmd' = a.input_cmd

\* Characters typed into the command line: a word for every arm of the
\* dispatch (Quit; GotoScreen to Main and to Login; EnterCommand; Logout; a
\* forwarded command with a character key and one without; an unhandled
\* command and Nop) and a character that is no word.
TypedChars == {"q", "1", "l", ":", "o", "j", "e", "x", "_", "z"}

\* The events read in the current mode: any key in Normal mode; in
\* CommandEntry mode the characters typed are TypedChars, and the buffer
\* takes another character only below MaxText.
Readable(ev) ==
    (current_mode = "CommandEntry" /\ ev.type = "Key" /\ ev.code[1] = "Char")
        => /\ ev.code[2] \in TypedChars
           /\ Len(command_line) < MaxText

\* The active screen's handler is reached: a forwarded command is
\* dispatched while need_re_update_view is false.
HandlerRuns(ev) ==
    \E r \in {handle_event(Self, ev, "Ok(false)")} :
        \E i \in 1..Len(r.a.calls) : r.a.calls[i][2] = "handle_event"

\* The handler's result is an input of the call only when it runs.
HandlerResults(ev) ==
    IF HandlerRuns(ev) THEN ScreenResults ELSE {"Ok(false)"}

\* The call p run from its start through the suspensions it has gone
\* through, up to the next one or to its end: [a, mid, ret].
RunCall(p) ==
    CASE p.op = "handle_event" ->
            handle_event(Meets(p.start, p.seen), p.ev, p.hres)
      [] p.op = "update_model" ->
            LET r == update_model(Meets(p.start, p.seen), p.sres, p.fav,
                                  p.pos, p.dur)
            IN  [a |-> r.a, mid |-> p.start, ret |-> r.ret]
      [] p.op = "init_after_login" ->
            [a |-> init_after_login(Meets(p.start, p.seen), p.fav),
             mid |-> p.start, ret |-> "Ok"]

\* The operation a suspended call shows.
Suspended(o) ==
    CASE o = "handle_event" -> "handle_event.await"
      [] o = "update_model" -> "update_model.await"
      [] o = "init_after_login" -> "init_after_login.await"

\* The call p goes on until its next suspension, where it returns to the
\* executor with the fields as they are at that await, or until it returns.
Step(p) ==
    \E r \in {RunCall(p)} :
        /\ event' = p.ev
        /\ entry' = Snapshot(p.start)
        /\ mid' = Snapshot(r.mid)
        /\ IF r.a.halted
           THEN /\ Commit(r.a.frozen[1])
                /\ op' = Suspended(p.op)
                /\ ret' = "Pending"
                /\ pending' = p
           ELSE /\ Commit(r.a)
                /\ op' = p.op
                /\ ret' = r.ret
                /\ pending' = NoCall

\* A call of handle_event begins: the event read and the result of the
\* active screen's handler are its inputs.
HandleEventOn(evs) ==
    /\ pending.op = "none"
    /\ \E ev \in {e \in evs : Readable(e)} :
         \E hres \in HandlerResults(ev) :
           Step([NoCall EXCEPT !.op = "handle_event", !.ev = ev,
                               !.hres = hres, !.start = Self])

HandleEvent == HandleEventOn(Events)

\* The screen's result is an input on Main and Login; Help has no update.
UpdateResults ==
    IF current_screen = "Help" THEN {"Ok(false)"} ELSE ScreenResults

\* The favorite playlist is an input only where init_after_login can run.
UpdateFavorites ==
    IF current_screen = "Login" THEN Favorites ELSE {<<"None", "None">>}

\* What the player is asked (app.rs:101-103): nothing when the screen's
\* update failed, its position, and its duration when it has a position.
PlayerReads(sres, poss, durs) ==
    IF sres = "Err"
    THEN {<<None, None>>}
    ELSE {<<pos, IF pos = None THEN None ELSE dur>> : pos \in poss, dur \in durs}

\* A call of update_model begins: the result of the active screen's
\* update, the favorite playlist and the player's position and duration are
\* its inputs.
UpdateModelOn(poss, durs) ==
    /\ pending.op = "none"
    /\ \E sres \in UpdateResults, fav \in UpdateFavorites :
         \E pd \in PlayerReads(sres, poss, durs) :
           Step([NoCall EXCEPT !.op = "update_model", !.sres = sres,
                               !.fav = fav, !.pos = pd[1], !.dur = pd[2],
                               !.start = Self])

UpdateModel == UpdateModelOn(Positions, Durations)

\* One call of draw, which awaits nothing.
Draw ==
    /\ pending.op = "none"
    /\ \E io \in DrawOutcomes :
        \E r \in {draw(Self, io)} :
            /\ Commit(r.a)
            /\ op' = "draw"
            /\ event' = NoEvent
            /\ ret' = r.ret
            /\ entry' = Snapshot(Self)
            /\ mid' = Snapshot(Self)
            /\ pending' = NoCall

\* init_after_login called from outside the controller (app.rs:64-65): it
\* never asks whether there is a session.
InitAfterLogin ==
    /\ pending.op = "none"
    /\ \E fav \in Favorites :
         Step([NoCall EXCEPT !.op = "init_after_login", !.fav = fav,
                             !.start = Self])

\* The suspended call is polled again: it goes on with the session the
\* other tasks have left.
Resume ==
    /\ pending.op # "none"
    /\ Step([pending EXCEPT !.seen = Append(@, is_login)])

\* The suspended call holds the guard of NCM_API.
HoldsApi ==
    /\ pending.op # "none"
    /\ Cardinality({i \in 1..Len(calls) : calls[i] = <<"NCM_API", "lock", "-">>})
         > Cardinality({i \in 1..Len(calls) : calls[i] = <<"NCM_API", "unlock", "-">>})

\* A background task that shares NCM_API logs in, or the session ends. It
\* needs the lock of NCM_API; while a call of the controller is suspended
\* the record of that call stays as it is.
ApiSessionChange ==
    /\ ~HoldsApi
    /\ is_login' = ~is_login
    /\ IF pending.op = "none"
       THEN /\ op' = "api"
            /\ event' = NoEvent
            /\ ret' = "-"
            /\ entry' = Snapshot(Self)
            /\ mid' = Snapshot(Self)
            /\ calls' = <<>>
            /\ enqueued' = <<>>
            /\ dispatched' = <<>>
            /\ input_cmd' = <<>>
       ELSE UNCHANGED obs_vars
    /\ UNCHANGED <<app_vars, pending>>

Next ==
    \/ HandleEvent /\ Frozen
    \/ UpdateModel /\ Frozen
    \/ Draw /\ Frozen
    \/ InitAfterLogin /\ Frozen
    \/ ApiSessionChange /\ Frozen
    \/ Resume /\ Frozen

Spec == Init /\ [][Next]_vars

\* The events of the runs whose history is recorded: the keys that switch
\* screens, enter and leave command entry, type text and reach the screen's
\* handler, one release, one event that is no key, and a failing read.
HistEvents ==
    {KeyEvent("Press", c) :
        c \in {Char(":"), Char("1"), Char("0"), Char("j"), Char("x"), Char("l"),
               Key("Enter"), Key("Esc"), Key("Backspace")}}
        \cup {KeyEvent("Release", Char("x")), OtherEvent, ReadError}

HandleEventTracked == HandleEventOn(HistEvents) /\ Track
UpdateModelTracked == UpdateModelOn({Some(61)}, {Some(125)}) /\ Track
DrawTracked == Draw /\ Track
InitAfterLoginTracked == InitAfterLogin /\ Track
ApiSessionChangeTracked == ApiSessionChange /\ Track
ResumeTracked == Resume /\ Track

NextHist ==
    \/ HandleEventTracked
    \/ UpdateModelTracked
    \/ DrawTracked
    \/ InitAfterLoginTracked
    \/ ApiSessionChangeTracked
    \/ ResumeTracked

\* The same program with the history of its operations recorded.
SpecHist == Init /\ [][NextHist]_vars

\* --------------------------------------------------------------- claims

\* The last call of the controller has returned: none is suspended.
Returned == pending.op = "none"

\* The last operation is a call of handle_event, returned or suspended.
InHandleEvent == op \in {"handle_event", "handle_event.await"}

\* The last operation is a call of update_model, returned or suspended.
InUpdateModel == op \in {"update_model", "update_model.await"}

\* Number of calls of obj.method among the calls of the last operation.
CallCount(obj, method) ==
    Cardinality({i \in 1..Len(calls) : calls[i][1] = obj /\ calls[i][2] = method})

\* Number of calls of a method on any of the three screens.
ScreenCallCount(method) ==
    CallCount("main_screen", method) + CallCount("login_screen", method)
        + CallCount("help_screen", method)

\* The last operation was handle_event and it popped cmd.
Dispatched(cmd) == op = "handle_event" /\ dispatched = <<cmd>>

\* The last operation was handle_event and it popped a command named name.
DispatchedName(name) ==
    op = "handle_event" /\ Len(dispatched) = 1 /\ dispatched[1].name = name

\* NCM_API.is_login() was asked in the last operation and answered true.
ReportedLoggedIn ==
    \E i \in 1..Len(calls) : calls[i] = <<"NCM_API", "is_login", "true">>

\* The dispatch left current_screen, current_mode and the dirty flag as they
\* were when the command was popped.
DispatchKeptState ==
    /\ current_screen = mid.current_screen
    /\ current_mode = mid.current_mode
    /\ need_re_update_view = mid.need_re_update_view

\* C1: commands are dispatched in the order enqueued, at most one per
\* handle_event call and exactly one when the queue is not empty after input
\* translation: the queue at the dispatch is the queue on entry followed by
\* what the call enqueued, the call pops at most its first command, and what
\* is left is the rest of the queue in the same order.
C1_FifoOnePerCall ==
    op = "handle_event" =>
        /\ mid.command_queue = entry.command_queue \o enqueued
        /\ Len(dispatched) <= 1
        /\ (mid.command_queue # <<>> => Len(dispatched) = 1)
        /\ dispatched \o command_queue = mid.command_queue

\* C1 witness: a call enqueued Down and dispatched that same Down.
C1_Witness ==
    /\ op = "handle_event"
    /\ enqueued = <<Cmd("Down")>>
    /\ dispatched = <<Cmd("Down")>>
    /\ command_queue = <<>>

\* C2: a call that pops Quit returns Ok(false), pops nothing else, makes no
\* collaborator call and leaves current_screen, current_mode and dirty as
\* they were when Quit was popped; every other call that does not fail
\* returns Ok(true).
C2_QuitStops ==
    op = "handle_event" =>
        /\ DispatchedName("Quit") =>
              /\ ret = "Ok(false)"
              /\ calls = <<>>
              /\ command_queue = Tail(mid.command_queue)
              /\ DispatchKeptState
              /\ current_screen = entry.current_screen
              /\ need_re_update_view = entry.need_re_update_view
        /\ (~DispatchedName("Quit") /\ ret # "Err") => ret = "Ok(true)"

\* C2 witness: Quit typed as text and committed with Enter was popped.
C2_Witness ==
    /\ DispatchedName("Quit")
    /\ entry.current_mode = "CommandEntry"
    /\ ret = "Ok(false)"

\* C3: GotoScreen(Login) dispatched while the API client reports a session
\* is rejected: current_screen keeps its value, the prompt message is added
\* to the command line, and current_mode, dirty and the rest of the queue are
\* as they were at the dispatch.
C3_LoginRejected ==
    (Dispatched(GotoScreen("Login")) /\ ReportedLoggedIn) =>
        /\ DispatchKeptState
        /\ command_line = Append(mid.text, LogoutFirstMsg)
        /\ command_queue = Tail(mid.command_queue)
        /\ is_login
        /\ ret = "Ok(true)"

\* C3 witness: the rejected switch was tried from the Help screen.
C3_Witness ==
    /\ Dispatched(GotoScreen("Login"))
    /\ ReportedLoggedIn
    /\ current_screen = "Help"
    /\ command_line = <<LogoutFirstMsg>>

\* C4: every GotoScreen(s) dispatch other than the rejected one ends with
\* current_screen = s and dirty = true, from any screen, s included.
C4_GotoUnconditional ==
    \A s \in Screens :
        (Dispatched(GotoScreen(s)) /\ ~(s = "Login" /\ ReportedLoggedIn)) =>
            /\ current_screen = s
            /\ need_re_update_view = TRUE

\* C4 witness: GotoScreen(Login) without a session, dispatched on the Login
\* screen itself while dirty was false.
C4_Witness ==
    /\ Dispatched(GotoScreen("Login"))
    /\ ~ReportedLoggedIn
    /\ mid.current_screen = "Login"
    /\ ~mid.need_re_update_view
    /\ current_screen = "Login"
    /\ need_re_update_view

\* C5: when update_model completes on the Help screen, dirty is false
\* whatever it was before, and no screen's update_model was called.
C5_HelpNeverDirty ==
    (op = "update_model" /\ entry.current_screen = "Help" /\ ret = "Ok") =>
        /\ need_re_update_view = FALSE
        /\ ScreenCallCount("update_model") = 0
        /\ current_screen = "Help"

\* C5 witness: update_model completed on Help with dirty true before it.
C5_Witness ==
    /\ op = "update_model"
    /\ entry.current_screen = "Help"
    /\ entry.need_re_update_view
    /\ ret = "Ok"
    /\ ~need_re_update_view

\* The favorite playlist was loaded iff the API client supplied a name and
\* a playlist.
FavoriteLoadedIffSupplied ==
    \A i \in 1..Len(calls) :
        (calls[i][1] = "NCM_API" /\ calls[i][2] = "user_favorite_songlist") =>
            (CallCount("main_screen", "update_playlist_model")
                = IF calls[i][3] = "(Some, Some)" THEN 1 ELSE 0)

\* C6: when update_model runs on the Login screen and the API client
\* reports a session, the call returns with a fresh Main sub-model (loaded
\* with the favorite playlist iff the API client supplied one),
\* current_screen = Main and dirty = true, whichever answer the Login
\* screen's own update gave.
C6_LoginDetected ==
    (op = "update_model" /\ entry.current_screen = "Login" /\ ReportedLoggedIn) =>
        /\ ret = "Ok"
        /\ CallCount("login_screen", "update_model") = 1
        /\ CallCount("MainScreen", "new") = 1
        /\ CallCount("NCM_API", "user_favorite_songlist") = 1
        /\ FavoriteLoadedIffSupplied
        /\ current_screen = "Main"
        /\ need_re_update_view = TRUE

\* C6 witness: the Login screen's update said Ok(false), dirty was false, a
\* favorite playlist was supplied, and the call ended on Main with dirty.
C6_Witness ==
    /\ op = "update_model"
    /\ entry.current_screen = "Login"
    /\ ReportedLoggedIn
    /\ ~entry.need_re_update_view
    /\ calls[1] = <<"login_screen", "update_model", "Ok(false)">>
    /\ CallCount("main_screen", "update_playlist_model") = 1
    /\ current_screen = "Main"
    /\ need_re_update_view

\* C7: a forwarded command is delivered exactly once to the handler of the
\* screen active at the dispatch and to no other screen, and when the
\* handler does not fail dirty afterwards is true iff it was true before or
\* the handler said true.
C7_ForwardedDelivered ==
    (op = "handle_event" /\ Len(dispatched) = 1
        /\ dispatched[1].name \in ForwardedNames) =>
        /\ ScreenCallCount("handle_event") = 1
        /\ \E i \in 1..Len(calls) :
              /\ calls[i][1] = ScreenObj(mid.current_screen)
              /\ calls[i][2] = "handle_event"
              /\ calls[i][3] = dispatched[1].name
        /\ (ret # "Err" /\ mid.need_re_update_view) => need_re_update_view

\* C8 as stated, on the draw passes that do not fail: with dirty false
\* neither the active screen's view update nor its draw runs.
C8_AsStated ==
    (op = "draw" /\ ret = "Ok" /\ ~need_re_update_view) =>
        /\ ScreenCallCount("update_view") = 0
        /\ ScreenCallCount("draw") = 0

\* C8 amended: on every draw pass the active screen's view update runs iff
\* dirty is true and the active screen is Main or Login (Help has none); the
\* command line's cursor and view are updated on every draw pass; and on
\* every draw pass whose frame is rendered the active screen, the playback
\* gauge and the command line are each drawn once, whatever dirty is. The
\* draw pass changes neither dirty nor current_screen.
C8_DrawPass ==
    op = "draw" =>
        /\ ScreenCallCount("update_view")
              = IF need_re_update_view /\ current_screen # "Help" THEN 1 ELSE 0
        /\ CallCount(ScreenObj(current_screen), "update_view")
              = ScreenCallCount("update_view")
        /\ CallCount("command_line", "set_cursor_visibility") = 1
        /\ CallCount("command_line", "update_view") = 1
        /\ ret = "Ok" =>
              /\ ScreenCallCount("draw") = 1
              /\ CallCount(ScreenObj(current_screen), "draw") = 1
              /\ CallCount("playback_bar", "render") = 1
              /\ CallCount("command_line", "draw") = 1
        /\ need_re_update_view = entry.need_re_update_view
        /\ current_screen = entry.current_screen

\* C8 witness: a draw pass with dirty false on Main drew the Main screen
\* without updating its view.
C8_Witness ==
    /\ op = "draw"
    /\ ret = "Ok"
    /\ ~need_re_update_view
    /\ current_screen = "Main"
    /\ CallCount("main_screen", "draw") = 1
    /\ CallCount("main_screen", "update_view") = 0
    /\ CallCount("playback_bar", "render") = 1

\* The keys the Normal-mode keymap binds.
MappedKeys ==
    {Char(c) : c \in MappedChars}
    \cup {Key(n) : n \in {"Up", "Down", "Left", "Right", "Tab", "BackTab",
                          "Enter", "Esc"}}
    \cup {F("1")}

\* The last handle_event read a press or repeat of a key.
KeyDown == op = "handle_event" /\ event.type = "Key" /\ event.kind \in {"Press", "Repeat"}

\* C9: a press in Normal mode of a key outside the keymap enqueues exactly
\* one Nop, and the call changes none of current_screen, current_mode and
\* dirty; dispatching any command the dispatcher does not handle only
\* removes it from the queue.
C9_NopFrame ==
    /\ (KeyDown /\ entry.current_mode = "Normal" /\ event.code \notin MappedKeys) =>
          /\ enqueued = <<Cmd("Nop")>>
          /\ dispatched = <<Cmd("Nop")>>
          /\ current_screen = entry.current_screen
          /\ current_mode = entry.current_mode
          /\ need_re_update_view = entry.need_re_update_view
    /\ (op = "handle_event" /\ Len(dispatched) = 1
            /\ dispatched[1].name \in UnhandledNames) =>
          /\ DispatchKeptState
          /\ command_queue = Tail(mid.command_queue)
          /\ command_line = mid.text
          /\ is_login = entry.is_login
          /\ calls = <<>>
          /\ ret = "Ok(true)"

\* C9 witness: F2, which the keymap does not bind, was pressed in Normal
\* mode while dirty was true.
C9_Witness ==
    /\ KeyDown
    /\ entry.current_mode = "Normal"
    /\ event.code = F("2")
    /\ entry.need_re_update_view
    /\ dispatched = <<Cmd("Nop")>>

\* C10: Enter in CommandEntry mode on text that does not parse enqueues and
\* dispatches nothing, leaves exactly the parser's message in the command
\* line, returns to Normal mode and keeps current_screen and dirty.
C10_ParseError ==
    (KeyDown /\ entry.current_mode = "CommandEntry"
        /\ event.code = Key("Enter") /\ ~Parse(entry.text).ok) =>
        /\ input_cmd = entry.text
        /\ enqueued = <<>>
        /\ dispatched = <<>>
        /\ command_queue = <<>>
        /\ command_line = <<Parse(entry.text).msg>>
        /\ current_mode = "Normal"
        /\ current_screen = entry.current_screen
        /\ need_re_update_view = entry.need_re_update_view
        /\ ret = "Ok(true)"

\* C10 witness: the text z, which is no command, was committed with Enter.
C10_Witness ==
    /\ KeyDown
    /\ entry.current_mode = "CommandEntry"
    /\ event.code = Key("Enter")
    /\ entry.text = <<"z">>
    /\ command_line = <<ParseErrorMsg>>
    /\ current_mode = "Normal"

\* The last operation was handle_event and it read a key other than Enter
\* or Esc, pressed or repeated, in CommandEntry mode.
TypedInCommandEntry ==
    /\ KeyDown
    /\ entry.current_mode = "CommandEntry"
    /\ event.code \notin {Key("Enter"), Key("Esc")}

\* The last operation was handle_event and it read Esc, pressed or repeated,
\* in CommandEntry mode.
EscInCommandEntry ==
    KeyDown /\ entry.current_mode = "CommandEntry" /\ event.code = Key("Esc")

\* current_screen and dirty are what they were before the EnterCommand that
\* began the command entry under way.
AsBeforeEnterCommand ==
    hist.trip.active =>
        /\ current_screen = hist.trip.current_screen
        /\ need_re_update_view = hist.trip.need_re_update_view

\* C11: the round trip through command entry. Dispatching EnterCommand in
\* Normal mode gives CommandEntry mode, an empty buffer and the prompt ':';
\* each key typed then, other than Enter and Esc, enqueues and dispatches
\* nothing and stays in CommandEntry mode; Esc then gives Normal mode and an
\* empty buffer, enqueues and dispatches nothing; and after each of these
\* calls current_screen and dirty are what they were before EnterCommand.
C11_EscRoundTrip ==
    /\ (DispatchedName("EnterCommand") /\ entry.current_mode = "Normal") =>
          /\ current_mode = "CommandEntry"
          /\ command_line = <<>>
          /\ calls = <<<<"command_line", "set_prompt", ":">>>>
          /\ hist.trip.active
          /\ AsBeforeEnterCommand
    /\ TypedInCommandEntry =>
          /\ current_mode = "CommandEntry"
          /\ enqueued = <<>>
          /\ dispatched = <<>>
          /\ command_queue = <<>>
          /\ AsBeforeEnterCommand
    /\ EscInCommandEntry =>
          /\ current_mode = "Normal"
          /\ command_line = <<>>
          /\ enqueued = <<>>
          /\ dispatched = <<>>
          /\ command_queue = <<>>
          /\ AsBeforeEnterCommand

\* C11 witness: on the Help screen with dirty false, EnterCommand was
\* dispatched, text was typed and Esc was pressed; the buffer is empty again.
C11_Witness ==
    /\ EscInCommandEntry
    /\ entry.text # <<>>
    /\ hist.trip.active
    /\ hist.trip.current_screen = "Help"
    /\ ~hist.trip.need_re_update_view
    /\ current_mode = "Normal"
    /\ command_line = <<>>

\* The keymap as the claim lists it: the keys bound to each command.
ClaimedBindings ==
    {<<{Char("k"), Key("Up")}, Cmd("Up")>>,
     <<{Char("j"), Key("Down")}, Cmd("Down")>>,
     <<{Key("Right"), Key("Tab")}, Cmd("NextPanel")>>,
     <<{Key("Left"), Key("BackTab")}, Cmd("PrevPanel")>>,
     <<{Char(" ")}, Cmd("TogglePlay")>>,
     <<{Char(",")}, Cmd("PrevTrack")>>,
     <<{Char(".")}, Cmd("NextTrack")>>,
     <<{Key("Enter")}, Cmd("Play")>>,
     <<{Key("Esc")}, Cmd("Esc")>>,
     <<{Char("r")}, Cmd("ToggleRepeat")>>,
     <<{Char("s")}, Cmd("ToggleShuffle")>>,
     <<{Char("g")}, Cmd("GotoTop")>>,
     <<{Char("G")}, Cmd("GotoBottom")>>,
     <<{Char("1")}, GotoScreen("Main")>>,
     <<{Char("0"), F("1")}, GotoScreen("Help")>>,
     <<{Char("n")}, NewPlaylist("None")>>,
     <<{Char("p")}, Cmd("PlaylistAdd")>>,
     <<{Char("x")}, Cmd("SelectPlaylist")>>,
     <<{Char("q")}, Cmd("Quit")>>,
     <<{Char(":")}, Cmd("EnterCommand")>>}

\* The commands the claim binds to a key: one for a listed key, Nop for any
\* other key.
ClaimedCommands(key_code) ==
    IF \E b \in ClaimedBindings : key_code \in b[1]
    THEN {b[2] : b \in {c \in ClaimedBindings : key_code \in c[1]}}
    ELSE {Cmd("Nop")}

\* C12: in Normal mode every key press or repeat appends exactly one
\* command to the queue, the one the keymap of the claim gives for the key
\* (Nop for a key that is not listed); a key release, in either mode, appends
\* nothing and leaves the text of the command line as it was.
C12_Keymap ==
    /\ (KeyDown /\ entry.current_mode = "Normal") =>
          /\ Len(enqueued) = 1
          /\ ClaimedCommands(event.code) = {enqueued[1]}
          /\ mid.command_queue = Append(entry.command_queue, enqueued[1])
    /\ (op = "handle_event" /\ event.type = "Key" /\ event.kind = "Release") =>
          /\ enqueued = <<>>
          /\ mid.command_queue = entry.command_queue
          /\ command_line = entry.text
          /\ input_cmd = <<>>

\* C12 witness: a repeat of 'G' in Normal mode appended GotoBottom.
C12_Witness ==
    /\ KeyDown
    /\ event.kind = "Repeat"
    /\ event.code = Char("G")
    /\ entry.current_mode = "Normal"
    /\ enqueued = <<Cmd("GotoBottom")>>

\* A key release in CommandEntry mode, with text typed, changed nothing.
C12_ReleaseSeen ==
    /\ op = "handle_event"
    /\ event.kind = "Release"
    /\ entry.current_mode = "CommandEntry"
    /\ entry.text # <<>>
    /\ command_line = entry.text

\* The last operation was a call of handle_event, returned or suspended,
\* that read Enter or Esc, pressed or repeated, in CommandEntry mode.
LeftCommandEntry ==
    /\ InHandleEvent
    /\ event.type = "Key"
    /\ event.kind \in {"Press", "Repeat"}
    /\ entry.current_mode = "CommandEntry"
    /\ event.code \in {Key("Enter"), Key("Esc")}

\* C13 as stated: current_mode becomes CommandEntry only in a handle_event
\* call that dispatches EnterCommand; it becomes Normal only in a
\* handle_event call that reads Enter or Esc in CommandEntry mode, and such a
\* call always ends in Normal mode, whatever the text parses to; every other
\* operation leaves the mode as it was.
C13_AsStated ==
    /\ (entry.current_mode = "Normal" /\ current_mode = "CommandEntry") =>
          DispatchedName("EnterCommand")
    /\ (entry.current_mode = "CommandEntry" /\ current_mode = "Normal") =>
          LeftCommandEntry
    /\ LeftCommandEntry => current_mode = "Normal"
    /\ ~InHandleEvent => current_mode = entry.current_mode

\* C13: current_mode becomes CommandEntry only in a handle_event call that
\* dispatches EnterCommand, and every such call ends in CommandEntry mode;
\* it becomes Normal only in a handle_event call that reads Enter or Esc in
\* CommandEntry mode. Such a call is in Normal mode when it reaches its
\* dispatch, whatever the text parses to, and it ends in Normal mode unless
\* the text committed with Enter parsed to EnterCommand: that command is
\* dispatched in the same call, which ends in CommandEntry mode with the
\* buffer reset. A call that reads any other event in CommandEntry mode
\* stays there, and every other operation leaves the mode as it was.
C13_ModeTransitions ==
    /\ (entry.current_mode = "Normal" /\ current_mode = "CommandEntry") =>
          DispatchedName("EnterCommand")
    /\ (entry.current_mode = "CommandEntry" /\ current_mode = "Normal") =>
          LeftCommandEntry
    /\ LeftCommandEntry =>
          /\ mid.current_mode = "Normal"
          /\ current_mode = "Normal" <=> ~DispatchedName("EnterCommand")
          /\ DispatchedName("EnterCommand") =>
                /\ event.code = Key("Enter")
                /\ Parse(entry.text).ok
                /\ Parse(entry.text).cmd = Cmd("EnterCommand")
                /\ command_line = <<>>
    /\ (InHandleEvent /\ entry.current_mode = "CommandEntry"
            /\ ~LeftCommandEntry) => current_mode = "CommandEntry"
    /\ DispatchedName("EnterCommand") => current_mode = "CommandEntry"
    /\ ~InHandleEvent => current_mode = entry.current_mode

\* C13 witness: Enter in CommandEntry mode on the word for EnterCommand; the
\* call passed through Normal mode and ended in CommandEntry mode.
C13_Witness ==
    /\ LeftCommandEntry
    /\ event.code = Key("Enter")
    /\ input_cmd = <<":">>
    /\ mid.current_mode = "Normal"
    /\ dispatched = <<Cmd("EnterCommand")>>
    /\ current_mode = "CommandEntry"

\* Enter in CommandEntry mode on text that does not parse ended in Normal
\* mode.
C13_ParseErrorLeaves ==
    /\ LeftCommandEntry
    /\ event.code = Key("Enter")
    /\ input_cmd = <<"z">>
    /\ dispatched = <<>>
    /\ current_mode = "Normal"

\* The last operation was the first draw pass since App::new.
FirstDraw == op = "draw" /\ ~prev_hist.drawn

\* C14 as stated: the first draw pass performs the active screen's view
\* update, whatever update_model returned before it.
C14_AsStated ==
    (FirstDraw /\ current_screen # "Help") => ScreenCallCount("update_view") = 1

\* C14 amended: App::new leaves Main, Normal, dirty true and an empty
\* queue; dirty stays true from then on as long as no update_model has
\* completed and no draw pass has run, so a first draw pass with no completed
\* update_model before it performs the Main screen's view update; a first
\* draw pass in general performs the active screen's view update exactly
\* when dirty is true at that moment and the screen is not Help.
C14_FirstDraw ==
    /\ op = "new" =>
          /\ current_screen = "Main"
          /\ current_mode = "Normal"
          /\ need_re_update_view
          /\ command_queue = <<>>
    /\ (Returned /\ ~hist.drawn /\ ~hist.updated) => need_re_update_view
    /\ (FirstDraw /\ ~prev_hist.updated /\ current_screen # "Help") =>
          CallCount(ScreenObj(current_screen), "update_view") = 1
    /\ FirstDraw =>
          (ScreenCallCount("update_view") = 1
              <=> (need_re_update_view /\ current_screen # "Help"))

\* C14 witness: the first draw pass, with handle_event calls but no
\* completed update_model before it, performed the Main screen's view update.
C14_Witness ==
    /\ FirstDraw
    /\ prev_hist.forced = "new"
    /\ ~prev_hist.updated
    /\ current_screen = "Main"
    /\ CallCount("main_screen", "update_view") = 1

\* The first draw pass came after an update_model of Main that returned
\* false and performed no view update.
C14_FirstDrawSkipped ==
    /\ FirstDraw
    /\ prev_hist.forced = "new"
    /\ prev_hist.updated
    /\ current_screen = "Main"
    /\ ~need_re_update_view
    /\ ScreenCallCount("update_view") = 0

\* The last operation was a draw pass that began with a dirty flag forced
\* true by a screen switch and no draw pass since.
DrawAfterSwitch == op = "draw" /\ prev_hist.forced = "switch"

\* C15 as stated, its exception: a dirty flag forced true by a screen switch
\* is still true when the view is next rendered.
C15_AsStated ==
    DrawAfterSwitch => need_re_update_view

\* C15 amended: every update_model call that completes on Main sets dirty to
\* exactly the Main screen's result, whatever dirty was, and a failing one
\* leaves dirty as it was; a dirty flag forced true by a screen switch stays
\* true as long as no update_model call completes after the switch, so it is
\* still true at the next draw pass, and the view is updated there, only if
\* no update_model completed in between.
C15_Recomputed ==
    /\ (op = "update_model" /\ entry.current_screen = "Main") =>
          /\ calls[1][1] = "main_screen" /\ calls[1][2] = "update_model"
          /\ ret = "Ok" => (need_re_update_view <=> calls[1][3] = "Ok(true)")
          /\ ret = "Err" <=> calls[1][3] = "Err"
          /\ ret = "Err" => need_re_update_view = entry.need_re_update_view
    /\ (Returned /\ hist.forced = "switch" /\ ~hist.updated) =>
          need_re_update_view
    /\ (DrawAfterSwitch /\ ~prev_hist.updated) =>
          /\ need_re_update_view
          /\ current_screen # "Help" =>
                CallCount(ScreenObj(current_screen), "update_view") = 1

\* C15 witness: update_model on Main began with dirty true, got false from
\* the Main screen and left dirty false.
C15_Witness ==
    /\ op = "update_model"
    /\ entry.current_screen = "Main"
    /\ entry.need_re_update_view
    /\ calls[1] = <<"main_screen", "update_model", "Ok(false)">>
    /\ ret = "Ok"
    /\ ~need_re_update_view

\* A draw pass right after a switch to Main, with draw passes before it,
\* found dirty still true and updated the Main screen's view.
C15_SwitchRendered ==
    /\ DrawAfterSwitch
    /\ ~prev_hist.updated
    /\ prev_hist.drawn
    /\ current_screen = "Main"
    /\ CallCount("main_screen", "update_view") = 1

\* The shared objects behind a lock.
Guarded == {"NCM_API", "PLAYER"}

\* Where the last operation acquired the guard of obj.
Locks(obj) == {i \in 1..Len(calls) : calls[i] = <<obj, "lock", "-">>}

\* Where the guard acquired at l was dropped: the first unlock of obj after
\* l, or past the end of the operation if there is none.
ReleaseOf(obj, l) ==
    LET later == {u \in (l + 1)..Len(calls) : calls[u] = <<obj, "unlock", "-">>}
    IN  IF later = {} THEN Len(calls) + 1
        ELSE CHOOSE u \in later : \A v \in later : u <= v

\* The await points the controller passed while holding the guard acquired
\* at l.
HeldAwaits(obj, l) ==
    {i \in (l + 1)..(ReleaseOf(obj, l) - 1) : calls[i][1] = "await"}

\* C16 as stated: a guard is acquired, used for one operation and released
\* before the controller awaits anything else; the only await passed under
\* a guard is that of the guarded object's own operation (logout).
C16_AsStated ==
    Returned =>
        \A obj \in Guarded : \A l \in Locks(obj) :
            \A i \in HeldAwaits(obj, l) : calls[i][2] = "logout"

\* C16 amended: every guard acquired in an operation is dropped before the
\* operation returns and is held across at most one await. The player guard
\* and the guard of a login-state check are held across none; the guard of
\* Logout is held across the logout only; the guard of init_after_login is
\* held from its first statement to its return, over the new Main screen,
\* the favorites query and the await of switch_screen.
C16_GuardSpans ==
    Returned => \A obj \in Guarded : \A l \in Locks(obj) :
        /\ ReleaseOf(obj, l) <= Len(calls)
        /\ Cardinality(HeldAwaits(obj, l)) <= 1
        /\ obj = "PLAYER" => HeldAwaits(obj, l) = {}
        /\ calls[l + 1][2] = "is_login" =>
              /\ ReleaseOf(obj, l) = l + 2
              /\ HeldAwaits(obj, l) = {}
        /\ calls[l + 1][2] = "logout" =>
              /\ ReleaseOf(obj, l) = l + 3
              /\ calls[l + 2] = <<"await", "logout", "-">>
        /\ (obj = "NCM_API" /\ calls[l + 1][2] \notin {"is_login", "logout"}) =>
              /\ calls[l + 1] = <<"MainScreen", "new", "-">>
              /\ calls[l + 2][2] = "user_favorite_songlist"
              /\ calls[ReleaseOf(obj, l) - 1] = <<"await", "switch_screen", "-">>
              /\ ReleaseOf(obj, l) = Len(calls) \/ op = "update_model"

\* C16 witness: an update_model on the Login screen checked the login
\* state, ran init_after_login and read the player, each under its guard.
C16_Witness ==
    /\ op = "update_model"
    /\ entry.current_screen = "Login"
    /\ Cardinality(Locks("NCM_API")) = 2
    /\ Cardinality(Locks("PLAYER")) = 1
    /\ \E l \in Locks("NCM_API") :
          \E i \in HeldAwaits("NCM_API", l) : calls[i][2] = "switch_screen"

\* The last operation ran init_after_login, called from outside or from
\* update_model on the Login screen.
RanInitAfterLogin ==
    \/ op = "init_after_login"
    \/ /\ InUpdateModel
       /\ entry.current_screen = "Login"
       /\ CallCount("MainScreen", "new") = 1

\* C17 as stated: current_screen changes only when a GotoScreen command is
\* dispatched.
C17_AsStated ==
    current_screen # entry.current_screen => DispatchedName("GotoScreen")

\* C17 amended: current_screen changes only when a GotoScreen command is
\* dispatched or when init_after_login runs, which leaves Main; every other
\* operation - the dispatch of any other command, Logout included, key
\* translation, text entry, an update_model that does not find a session on
\* the Login screen, draw - leaves it as it was.
C17_ScreenFrame ==
    /\ current_screen # entry.current_screen =>
          (DispatchedName("GotoScreen") \/ RanInitAfterLogin)
    /\ RanInitAfterLogin => current_screen = "Main"
    /\ (InHandleEvent /\ ~DispatchedName("GotoScreen")) =>
          current_screen = entry.current_screen
    /\ InHandleEvent => mid.current_screen = entry.current_screen
    /\ op = "draw" => current_screen = entry.current_screen
    /\ (InUpdateModel /\ ~RanInitAfterLogin) =>
          current_screen = entry.current_screen
    /\ op = "init_after_login.await" => current_screen = entry.current_screen

\* C17 witness: update_model on the Login screen found a session and left
\* the Main screen current, with no command dispatched.
C17_Witness ==
    /\ op = "update_model"
    /\ entry.current_screen = "Login"
    /\ current_screen = "Main"
    /\ dispatched = <<>>

\* Logout was dispatched on the Main screen and the Main screen stayed.
C17_LogoutStays ==
    /\ DispatchedName("Logout")
    /\ entry.is_login
    /\ ~is_login
    /\ current_screen = "Main"

\* The active screen's update_model failed in the last operation.
ScreenUpdateFailed ==
    /\ op = "update_model"
    /\ \E i \in 1..Len(calls) :
          /\ calls[i][1] = ScreenObj(entry.current_screen)
          /\ calls[i][2] = "update_model"
          /\ calls[i][3] = "Err"

\* The active screen's handle_event failed in the last operation.
ScreenHandlerFailed ==
    /\ op = "handle_event"
    /\ \E i \in 1..Len(calls) : calls[i] = <<"await", "handle_event", "Err">>

\* C18: when the active screen's update_model fails, update_model returns
\* the failure and dirty keeps its value; when the active screen's
\* handle_event fails, handle_event returns the failure, dirty,
\* current_screen and current_mode keep their values, and the command that
\* was being handled is off the queue. Nothing else makes update_model fail.
C18_FailuresPropagate ==
    /\ ScreenUpdateFailed =>
          /\ ret = "Err"
          /\ need_re_update_view = entry.need_re_update_view
          /\ current_screen = entry.current_screen
          /\ Locks("PLAYER") = {}
    /\ (op = "update_model" /\ ret = "Err") => ScreenUpdateFailed
    /\ ScreenHandlerFailed =>
          /\ ret = "Err"
          /\ need_re_update_view = entry.need_re_update_view
          /\ current_screen = entry.current_screen
          /\ DispatchKeptState
          /\ Len(dispatched) = 1
          /\ dispatched[1].name \in ForwardedNames
          /\ command_queue = Tail(mid.command_queue)
          /\ \A i \in 1..Len(command_queue) : command_queue[i] # dispatched[1]
    /\ (op = "handle_event" /\ ret = "Err" /\ event.type # "Error") =>
          ScreenHandlerFailed

\* C18 witness: the Main screen's handler failed on Down; handle_event
\* returned the failure with Down off the queue and dirty still false.
C18_Witness ==
    /\ ScreenHandlerFailed
    /\ dispatched = <<Cmd("Down")>>
    /\ entry.current_screen = "Main"
    /\ ret = "Err"
    /\ command_queue = <<>>
    /\ ~need_re_update_view

\* The Login screen's update failed with dirty true; dirty stayed true.
C18_UpdateFailureSeen ==
    /\ ScreenUpdateFailed
    /\ entry.current_screen = "Login"
    /\ entry.need_re_update_view
    /\ need_re_update_view
    /\ ret = "Err"

\* C19: the queue never holds more than one command - not on entry to
\* handle_event, not at its dispatch, not on return - and is empty whenever
\* handle_event has returned, with success or with failure, and after every
\* other operation; every command enqueued is dispatched by the call that
\* enqueued it, and a call that enqueues nothing dispatches nothing.
C19_QueueBound ==
    /\ command_queue = <<>>
    /\ entry.command_queue = <<>>
    /\ Len(mid.command_queue) <= 1
    /\ InHandleEvent =>
          /\ mid.command_queue = enqueued
          /\ dispatched = enqueued
          /\ enqueued = <<>> => (dispatched = <<>> /\ calls = <<>>)
    /\ ~InHandleEvent => (enqueued = <<>> /\ dispatched = <<>>)

\* C19 witness: a handle_event call that enqueued Quit and returned
\* Ok(false) left the queue empty.
C19_Witness ==
    /\ op = "handle_event"
    /\ enqueued = <<Cmd("Quit")>>
    /\ Len(mid.command_queue) = 1
    /\ ret = "Ok(false)"
    /\ command_queue = <<>>

\* How many guards of obj the controller holds after the first i calls of
\* the last operation.
Depth(obj, i) ==
    Cardinality({j \in 1..i : calls[j] = <<obj, "lock", "-">>})
        - Cardinality({j \in 1..i : calls[j] = <<obj, "unlock", "-">>})

\* Where the last operation awaited switch_screen inside init_after_login.
InitSwitches ==
    {i \in 1..Len(calls) :
        calls[i] = <<"await", "switch_screen", "-">> /\ Depth("NCM_API", i) = 1}

\* C20: the controller never waits for a lock while it holds the guard of
\* that lock: every lock().await of the last operation is reached with no
\* guard of the same object held, and none is held when the operation
\* returns. init_after_login awaits switch_screen with the API guard held,
\* and nothing is locked between that await and the drop of the guard; in
\* update_model on the Login screen the guard of the login-state check is
\* dropped before init_after_login is awaited and locks again, so no
\* lock().await of that operation waits for the controller itself.
C20_NoSelfDeadlock ==
    Returned =>
    /\ \A obj \in Guarded :
          /\ \A i \in 1..Len(calls) :
                /\ Depth(obj, i) \in {0, 1}
                /\ calls[i] = <<"await", "lock", "-">> =>
                      (calls[i + 1][1] = obj => Depth(obj, i) = 0)
          /\ Depth(obj, Len(calls)) = 0
    /\ RanInitAfterLogin =>
          /\ Cardinality(InitSwitches) = 1
          /\ \A i \in InitSwitches :
                /\ calls[i + 1] = <<"NCM_API", "unlock", "-">>
                /\ current_screen = "Main"
    /\ ~RanInitAfterLogin => InitSwitches = {}
    /\ (op = "update_model" /\ RanInitAfterLogin) =>
          \E i \in 1..Len(calls) :
              /\ calls[i] = <<"NCM_API", "is_login", "true">>
              /\ calls[i + 1] = <<"NCM_API", "unlock", "-">>
              /\ calls[i + 2] = <<"await", "init_after_login", "-">>
              /\ calls[i + 3] = <<"await", "lock", "-">>
              /\ calls[i + 4] = <<"NCM_API", "lock", "-">>

\* C20 witness: update_model on the Login screen checked the login state,
\* dropped that guard, locked again in init_after_login and awaited
\* switch_screen under the second guard.
C20_Witness ==
    /\ op = "update_model"
    /\ entry.current_screen = "Login"
    /\ RanInitAfterLogin
    /\ InitSwitches # {}
    /\ CallCount("NCM_API", "lock") = 2
    /\ CallCount("NCM_API", "unlock") = 2
    /\ ret = "Ok"

====
